---- MODULE Spec2Model ----
(***************************************************************************)
(* MelonDSAndroidIRHandler: the JNI bridge that forwards the emulator's IR *)
(* serial/TCP transport calls to the host-side IRManager object.           *)
(*                                                                         *)
(* One action per public operation of the class.  An action is the whole   *)
(* C++ function: it draws what the host runtime does during the call (the  *)
(* JNI step that returns null, if any, the value the host method returns   *)
(* and the bytes it leaves in the transfer array), runs the function body  *)
(* and records the finished call in `call`.                                *)
(***************************************************************************)
EXTENDS Integers, Sequences, FiniteSets, TLC

\* Largest buffer size (length / maxLength argument) the caller passes.
MaxLen == 2

\* Calls are explored only while fewer than this many local references are
\* live in the thread's local reference table.
MaxLiveRefs == 2

\* The caller's memory holds one cell beyond the largest buffer, so a write
\* past the end of the buffer is visible.
MemLen == MaxLen + 1

\* Byte values (contents are never inspected by the bridge).
Bytes == {0, 1}

\* Buffer sizes the caller passes: the size of the memory behind data /
\* buffer, so never negative.
Lengths == 0 .. MaxLen

\* Values the host's int methods may return: an error (-1), nothing (0),
\* a count within the array, and a count larger than the array.
HostInts == -1 .. (MaxLen + 1)

\* Values of a jboolean returned by CallBooleanMethod (JNI_FALSE, JNI_TRUE).
JBooleans == {0, 1}

NULL == "null"

VARIABLES
    jniEnvHandler,  \* field: NULL or the JniEnvHandler
    irManager,      \* field: NULL or the IRManager global reference
    memory,         \* the caller's memory; data / buffer point at cell 1
    localRefs,      \* JNI local references created by the handler and still live
    serialOpened,   \* history: the host opened the serial link and has not closed it
    call            \* the last finished call: arguments, runtime, effects, result

vars == <<jniEnvHandler, irManager, memory, localRefs, serialOpened, call>>

BoolOps == {"openSerial", "isSerialOpen", "openTCP", "isTCPOpen", "hasDataAvailable"}
VoidOps == {"closeSerial", "closeTCP"}
WriteOps == {"writeSerial", "writeTCP"}
ReadOps == {"readSerial", "readTCP"}

\* All sequences over S of length n.
SeqsOfLen(S, n) == [1 .. n -> S]

\* A fresh Java byte array: n zero elements.
ZeroArray(n) == [i \in 1 .. n |-> 0]

----------------------------------------------------------------------------
(* What the host runtime does during one call.  fail names the resolution  *)
(* step that returns null (getCurrentThreadEnv, NewByteArray,              *)
(* GetObjectClass, GetMethodID) or "none"; hostRet is what the host method *)
(* returns and hostData what it leaves in the transfer array.  Every call  *)
(* draws its runtime afresh: a step may fail in one call and succeed in    *)
(* the next, whatever exception an earlier call left pending.              *)

NoArgRuntimes(rets) ==
    [fail : {"env", "class", "method"}, hostRet : {0}, hostData : {<<>>}]
        \cup [fail : {"none"}, hostRet : rets, hostData : {<<>>}]

WriteRuntimes ==
    [fail : {"env", "alloc", "class", "method"}, hostRet : {0}, hostData : {<<>>}]
        \cup [fail : {"none"}, hostRet : HostInts, hostData : {<<>>}]

ReadRuntimes(maxLength) ==
    [fail : {"env", "alloc", "class", "method"}, hostRet : {0}, hostData : {<<>>}]
        \cup [fail : {"none"}, hostRet : HostInts, hostData : SeqsOfLen(Bytes, maxLength)]

----------------------------------------------------------------------------
(* The effects of a call in progress.                                      *)

Enter(op, length, rt) ==
    [ op         |-> op,      \* the function called
      length     |-> length,  \* its length / maxLength argument (0 when it has none)
      rt         |-> rt,      \* what the host runtime does during the call
      memBefore  |-> memory,  \* the caller's memory at entry
      envCalls   |-> 0,       \* calls of getCurrentThreadEnv
      newRefs    |-> <<>>,    \* local references created, in order
      delRefs    |-> <<>>,    \* local references deleted, in order
      invoked    |-> <<>>,    \* host methods invoked, in order
      memRead    |-> {},      \* cells of the caller's memory read
      memWritten |-> {},      \* cells of the caller's memory written
      mem        |-> memory,  \* the caller's memory, as the call leaves it
      filled     |-> <<>>,    \* the transfer array after the host method ran
      ret        |-> "void" ]

getCurrentThreadEnv(f) == [f EXCEPT !.envCalls = @ + 1]

NewLocalRef(f, ref) == [f EXCEPT !.newRefs = Append(@, ref)]

DeleteLocalRef(f, ref) == [f EXCEPT !.delRefs = Append(@, ref)]

CallMethod(f, method, sig, args) ==
    [f EXCEPT !.invoked = Append(@, [method |-> method, sig |-> sig, args |-> args])]

Return(f, v) == [f EXCEPT !.ret = v]

\* JNI: a region is valid when it lies within the array.
RegionOk(array, start, len) ==
    start >= 0 /\ len >= 0 /\ len <= Len(array) - start

\* JNI SetByteArrayRegion: copy len bytes of buf into array at start; an
\* invalid region throws ArrayIndexOutOfBoundsException and copies nothing.
SetByteArrayRegion(array, start, len, buf) ==
    IF RegionOk(array, start, len)
    THEN [i \in 1 .. Len(array) |->
            IF start < i /\ i <= start + len THEN buf[i - start] ELSE array[i]]
    ELSE array

\* JNI GetByteArrayRegion: copy len bytes of array from start into buf; an
\* invalid region throws ArrayIndexOutOfBoundsException and copies nothing.
GetByteArrayRegion(array, start, len, buf) ==
    IF RegionOk(array, start, len)
    THEN [i \in 1 .. Len(buf) |-> IF i <= len THEN array[start + i] ELSE buf[i]]
    ELSE buf

\* The host read method stores what it received in the array it was given.
HostFill(array, data) ==
    [i \in 1 .. Len(array) |-> IF i <= Len(data) THEN data[i] ELSE array[i]]

----------------------------------------------------------------------------
(* The function bodies.  Each takes the function's arguments and the       *)
(* runtime of this call and yields the effects of the finished call.       *)

\* bool openSerial()
openSerialBody(rt) ==
    LET f0 == Enter("openSerial", 0, rt) IN
    IF jniEnvHandler = NULL \/ irManager = NULL THEN Return(f0, FALSE) ELSE
    LET f1 == getCurrentThreadEnv(f0) IN
    IF rt.fail = "env" THEN Return(f1, FALSE) ELSE
    IF rt.fail = "class" THEN Return(f1, FALSE) ELSE
    LET f2 == NewLocalRef(f1, "irManagerClass") IN
    IF rt.fail = "method"
    THEN Return(DeleteLocalRef(f2, "irManagerClass"), FALSE) ELSE
    LET f3 == CallMethod(f2, "openSerial", "()Z", <<>>)
        result == rt.hostRet
        f4 == DeleteLocalRef(f3, "irManagerClass")
    IN  Return(f4, result # 0)

\* closeSerial as it would be if the failed method lookup returned as the
\* failed class lookup does, without deleting the class reference.
closeSerialBody_classRefKept(rt) ==
    LET f0 == Enter("closeSerial", 0, rt) IN
    IF jniEnvHandler = NULL \/ irManager = NULL THEN Return(f0, "void") ELSE
    LET f1 == getCurrentThreadEnv(f0) IN
    IF rt.fail = "env" THEN Return(f1, "void") ELSE
    IF rt.fail = "class" THEN Return(f1, "void") ELSE
    LET f2 == NewLocalRef(f1, "irManagerClass") IN
    IF rt.fail = "method"
    THEN Return(f2, "void") ELSE
    LET f3 == CallMethod(f2, "closeSerial", "()V", <<>>)
        f4 == DeleteLocalRef(f3, "irManagerClass")
    IN  Return(f4, "void")

\* void closeSerial()
closeSerialBody(rt) ==
    LET f0 == Enter("closeSerial", 0, rt) IN
    IF jniEnvHandler = NULL \/ irManager = NULL THEN Return(f0, "void") ELSE
    LET f1 == getCurrentThreadEnv(f0) IN
    IF rt.fail = "env" THEN Return(f1, "void") ELSE
    IF rt.fail = "class" THEN Return(f1, "void") ELSE
    LET f2 == NewLocalRef(f1, "irManagerClass") IN
    IF rt.fail = "method"
    THEN Return(DeleteLocalRef(f2, "irManagerClass"), "void") ELSE
    LET f3 == CallMethod(f2, "closeSerial", "()V", <<>>)
        f4 == DeleteLocalRef(f3, "irManagerClass")
    IN  Return(f4, "void")

\* writeSerial as it would be if the bridge kept link state and refused to
\* write before the serial link was opened.
writeSerialBody_requiresOpen(data, length, rt) ==
    LET f0 == Enter("writeSerial", length, rt) IN
    IF jniEnvHandler = NULL \/ irManager = NULL THEN Return(f0, -1) ELSE
    IF ~serialOpened THEN Return(f0, -1) ELSE
    LET f1 == getCurrentThreadEnv(f0) IN
    IF rt.fail = "env" THEN Return(f1, -1) ELSE
    IF rt.fail = "alloc" THEN Return(f1, -1) ELSE
    LET f2 == NewLocalRef(f1, "javaData")
        javaData == SetByteArrayRegion(ZeroArray(length), 0, length, data)
        f3 == [f2 EXCEPT !.memRead = 1 .. length]
    IN
    IF rt.fail = "class" THEN Return(DeleteLocalRef(f3, "javaData"), -1) ELSE
    LET f4 == NewLocalRef(f3, "irManagerClass") IN
    IF rt.fail = "method"
    THEN Return(DeleteLocalRef(DeleteLocalRef(f4, "irManagerClass"), "javaData"), -1) ELSE
    LET f5 == CallMethod(f4, "writeSerial", "([BI)I", <<javaData, length>>)
        result == rt.hostRet
        f6 == DeleteLocalRef(DeleteLocalRef(f5, "irManagerClass"), "javaData")
    IN  Return(f6, result)

\* writeSerial as it would be if an empty buffer were treated as a failure.
writeSerialBody_emptyRejected(data, length, rt) ==
    LET f0 == Enter("writeSerial", length, rt) IN
    IF jniEnvHandler = NULL \/ irManager = NULL THEN Return(f0, -1) ELSE
    LET f1 == getCurrentThreadEnv(f0) IN
    IF rt.fail = "env" THEN Return(f1, -1) ELSE
    IF length <= 0 THEN Return(f1, -1) ELSE
    IF rt.fail = "alloc" THEN Return(f1, -1) ELSE
    LET f2 == NewLocalRef(f1, "javaData")
        javaData == SetByteArrayRegion(ZeroArray(length), 0, length, data)
        f3 == [f2 EXCEPT !.memRead = 1 .. length]
    IN
    IF rt.fail = "class" THEN Return(DeleteLocalRef(f3, "javaData"), -1) ELSE
    LET f4 == NewLocalRef(f3, "irManagerClass") IN
    IF rt.fail = "method"
    THEN Return(DeleteLocalRef(DeleteLocalRef(f4, "irManagerClass"), "javaData"), -1) ELSE
    LET f5 == CallMethod(f4, "writeSerial", "([BI)I", <<javaData, length>>)
        result == rt.hostRet
        f6 == DeleteLocalRef(DeleteLocalRef(f5, "irManagerClass"), "javaData")
    IN  Return(f6, result)

\* int writeSerial(const char* data, int length)
writeSerialBody(data, length, rt) ==
    LET f0 == Enter("writeSerial", length, rt) IN
    IF jniEnvHandler = NULL \/ irManager = NULL THEN Return(f0, -1) ELSE
    LET f1 == getCurrentThreadEnv(f0) IN
    IF rt.fail = "env" THEN Return(f1, -1) ELSE
    IF rt.fail = "alloc" THEN Return(f1, -1) ELSE
    LET f2 == NewLocalRef(f1, "javaData")
        javaData == SetByteArrayRegion(ZeroArray(length), 0, length, data)
        f3 == [f2 EXCEPT !.memRead = 1 .. length]
    IN
    IF rt.fail = "class" THEN Return(DeleteLocalRef(f3, "javaData"), -1) ELSE
    LET f4 == NewLocalRef(f3, "irManagerClass") IN
    IF rt.fail = "method"
    THEN Return(DeleteLocalRef(DeleteLocalRef(f4, "irManagerClass"), "javaData"), -1) ELSE
    LET f5 == CallMethod(f4, "writeSerial", "([BI)I", <<javaData, length>>)
        result == rt.hostRet
        f6 == DeleteLocalRef(DeleteLocalRef(f5, "irManagerClass"), "javaData")
    IN  Return(f6, result)

\* readSerial as it would be with the environment check copied from
\* writeSerial: a missing JNI environment returns -1 instead of 0.
readSerialBody_envFailureAsWrite(buffer, maxLength, rt) ==
    LET f0 == Enter("readSerial", maxLength, rt) IN
    IF jniEnvHandler = NULL \/ irManager = NULL THEN Return(f0, 0) ELSE
    LET f1 == getCurrentThreadEnv(f0) IN
    IF rt.fail = "env" THEN Return(f1, -1) ELSE
    IF rt.fail = "alloc" THEN Return(f1, 0) ELSE
    LET f2 == NewLocalRef(f1, "javaBuffer")
        javaBuffer == ZeroArray(maxLength)
    IN
    IF rt.fail = "class" THEN Return(DeleteLocalRef(f2, "javaBuffer"), 0) ELSE
    LET f3 == NewLocalRef(f2, "irManagerClass") IN
    IF rt.fail = "method"
    THEN Return(DeleteLocalRef(DeleteLocalRef(f3, "irManagerClass"), "javaBuffer"), 0) ELSE
    LET f4 == CallMethod(f3, "readSerial", "([BI)I", <<javaBuffer, maxLength>>)
        filled == HostFill(javaBuffer, rt.hostData)
        bytesRead == rt.hostRet
        f5 == IF bytesRead > 0
              THEN [f4 EXCEPT
                      !.mem = GetByteArrayRegion(filled, 0, bytesRead, buffer),
                      !.memWritten = IF RegionOk(filled, 0, bytesRead)
                                     THEN 1 .. bytesRead ELSE {}]
              ELSE f4
        f6 == DeleteLocalRef(DeleteLocalRef(f5, "irManagerClass"), "javaBuffer")
    IN  Return([f6 EXCEPT !.filled = filled], bytesRead)
\* An unchecked copy of len bytes from the array's storage into buf; what
\* lies beyond the array's last element reads as 0.
RawCopy(array, len, buf) ==
    [i \in 1 .. Len(buf) |->
        IF i <= len THEN (IF i <= Len(array) THEN array[i] ELSE 0) ELSE buf[i]]

\* readSerial as it would be if the copy-out went through the raw element
\* pointer (memcpy of bytesRead bytes) instead of a checked region read.
readSerialBody_rawCopy(buffer, maxLength, rt) ==
    LET f0 == Enter("readSerial", maxLength, rt) IN
    IF jniEnvHandler = NULL \/ irManager = NULL THEN Return(f0, 0) ELSE
    LET f1 == getCurrentThreadEnv(f0) IN
    IF rt.fail = "env" THEN Return(f1, 0) ELSE
    IF rt.fail = "alloc" THEN Return(f1, 0) ELSE
    LET f2 == NewLocalRef(f1, "javaBuffer")
        javaBuffer == ZeroArray(maxLength)
    IN
    IF rt.fail = "class" THEN Return(DeleteLocalRef(f2, "javaBuffer"), 0) ELSE
    LET f3 == NewLocalRef(f2, "irManagerClass") IN
    IF rt.fail = "method"
    THEN Return(DeleteLocalRef(DeleteLocalRef(f3, "irManagerClass"), "javaBuffer"), 0) ELSE
    LET f4 == CallMethod(f3, "readSerial", "([BI)I", <<javaBuffer, maxLength>>)
        filled == HostFill(javaBuffer, rt.hostData)
        bytesRead == rt.hostRet
        f5 == IF bytesRead > 0
              THEN [f4 EXCEPT
                      !.mem = RawCopy(filled, bytesRead, buffer),
                      !.memWritten = 1 .. bytesRead]
              ELSE f4
        f6 == DeleteLocalRef(DeleteLocalRef(f5, "irManagerClass"), "javaBuffer")
    IN  Return([f6 EXCEPT !.filled = filled], bytesRead)

\* int readSerial(char* buffer, int maxLength)
readSerialBody(buffer, maxLength, rt) ==
    LET f0 == Enter("readSerial", maxLength, rt) IN
    IF jniEnvHandler = NULL \/ irManager = NULL THEN Return(f0, 0) ELSE
    LET f1 == getCurrentThreadEnv(f0) IN
    IF rt.fail = "env" THEN Return(f1, 0) ELSE
    IF rt.fail = "alloc" THEN Return(f1, 0) ELSE
    LET f2 == NewLocalRef(f1, "javaBuffer")
        javaBuffer == ZeroArray(maxLength)
    IN
    IF rt.fail = "class" THEN Return(DeleteLocalRef(f2, "javaBuffer"), 0) ELSE
    LET f3 == NewLocalRef(f2, "irManagerClass") IN
    IF rt.fail = "method"
    THEN Return(DeleteLocalRef(DeleteLocalRef(f3, "irManagerClass"), "javaBuffer"), 0) ELSE
    LET f4 == CallMethod(f3, "readSerial", "([BI)I", <<javaBuffer, maxLength>>)
        filled == HostFill(javaBuffer, rt.hostData)
        bytesRead == rt.hostRet
        f5 == IF bytesRead > 0
              THEN [f4 EXCEPT
                      !.mem = GetByteArrayRegion(filled, 0, bytesRead, buffer),
                      !.memWritten = IF RegionOk(filled, 0, bytesRead)
                                     THEN 1 .. bytesRead ELSE {}]
              ELSE f4
        f6 == DeleteLocalRef(DeleteLocalRef(f5, "irManagerClass"), "javaBuffer")
    IN  Return([f6 EXCEPT !.filled = filled], bytesRead)

\* bool isSerialOpen()
isSerialOpenBody(rt) ==
    LET f0 == Enter("isSerialOpen", 0, rt) IN
    IF jniEnvHandler = NULL \/ irManager = NULL THEN Return(f0, FALSE) ELSE
    LET f1 == getCurrentThreadEnv(f0) IN
    IF rt.fail = "env" THEN Return(f1, FALSE) ELSE
    IF rt.fail = "class" THEN Return(f1, FALSE) ELSE
    LET f2 == NewLocalRef(f1, "irManagerClass") IN
    IF rt.fail = "method"
    THEN Return(DeleteLocalRef(f2, "irManagerClass"), FALSE) ELSE
    LET f3 == CallMethod(f2, "isSerialOpen", "()Z", <<>>)
        result == rt.hostRet
        f4 == DeleteLocalRef(f3, "irManagerClass")
    IN  Return(f4, result # 0)

\* openTCP as it would be with the method name left over from openSerial.
openTCPBody_callsOpenSerial(rt) ==
    LET f0 == Enter("openTCP", 0, rt) IN
    IF jniEnvHandler = NULL \/ irManager = NULL THEN Return(f0, FALSE) ELSE
    LET f1 == getCurrentThreadEnv(f0) IN
    IF rt.fail = "env" THEN Return(f1, FALSE) ELSE
    IF rt.fail = "class" THEN Return(f1, FALSE) ELSE
    LET f2 == NewLocalRef(f1, "irManagerClass") IN
    IF rt.fail = "method"
    THEN Return(DeleteLocalRef(f2, "irManagerClass"), FALSE) ELSE
    LET f3 == CallMethod(f2, "openSerial", "()Z", <<>>)
        result == rt.hostRet
        f4 == DeleteLocalRef(f3, "irManagerClass")
    IN  Return(f4, result # 0)

\* bool openTCP()
openTCPBody(rt) ==
    LET f0 == Enter("openTCP", 0, rt) IN
    IF jniEnvHandler = NULL \/ irManager = NULL THEN Return(f0, FALSE) ELSE
    LET f1 == getCurrentThreadEnv(f0) IN
    IF rt.fail = "env" THEN Return(f1, FALSE) ELSE
    IF rt.fail = "class" THEN Return(f1, FALSE) ELSE
    LET f2 == NewLocalRef(f1, "irManagerClass") IN
    IF rt.fail = "method"
    THEN Return(DeleteLocalRef(f2, "irManagerClass"), FALSE) ELSE
    LET f3 == CallMethod(f2, "openTCP", "()Z", <<>>)
        result == rt.hostRet
        f4 == DeleteLocalRef(f3, "irManagerClass")
    IN  Return(f4, result # 0)

\* void closeTCP()
closeTCPBody(rt) ==
    LET f0 == Enter("closeTCP", 0, rt) IN
    IF jniEnvHandler = NULL \/ irManager = NULL THEN Return(f0, "void") ELSE
    LET f1 == getCurrentThreadEnv(f0) IN
    IF rt.fail = "env" THEN Return(f1, "void") ELSE
    IF rt.fail = "class" THEN Return(f1, "void") ELSE
    LET f2 == NewLocalRef(f1, "irManagerClass") IN
    IF rt.fail = "method"
    THEN Return(DeleteLocalRef(f2, "irManagerClass"), "void") ELSE
    LET f3 == CallMethod(f2, "closeTCP", "()V", <<>>)
        f4 == DeleteLocalRef(f3, "irManagerClass")
    IN  Return(f4, "void")

\* writeTCP as it would be if the copy into the array stopped one byte short.
writeTCPBody_shortCopy(data, length, rt) ==
    LET f0 == Enter("writeTCP", length, rt) IN
    IF jniEnvHandler = NULL \/ irManager = NULL THEN Return(f0, -1) ELSE
    LET f1 == getCurrentThreadEnv(f0) IN
    IF rt.fail = "env" THEN Return(f1, -1) ELSE
    IF rt.fail = "alloc" THEN Return(f1, -1) ELSE
    LET f2 == NewLocalRef(f1, "javaData")
        javaData == SetByteArrayRegion(ZeroArray(length), 0, length - 1, data)
        f3 == [f2 EXCEPT !.memRead = 1 .. length]
    IN
    IF rt.fail = "class" THEN Return(DeleteLocalRef(f3, "javaData"), -1) ELSE
    LET f4 == NewLocalRef(f3, "irManagerClass") IN
    IF rt.fail = "method"
    THEN Return(DeleteLocalRef(DeleteLocalRef(f4, "irManagerClass"), "javaData"), -1) ELSE
    LET f5 == CallMethod(f4, "writeTCP", "([BI)I", <<javaData, length>>)
        result == rt.hostRet
        f6 == DeleteLocalRef(DeleteLocalRef(f5, "irManagerClass"), "javaData")
    IN  Return(f6, result)

\* int writeTCP(const char* data, int length)
writeTCPBody(data, length, rt) ==
    LET f0 == Enter("writeTCP", length, rt) IN
    IF jniEnvHandler = NULL \/ irManager = NULL THEN Return(f0, -1) ELSE
    LET f1 == getCurrentThreadEnv(f0) IN
    IF rt.fail = "env" THEN Return(f1, -1) ELSE
    IF rt.fail = "alloc" THEN Return(f1, -1) ELSE
    LET f2 == NewLocalRef(f1, "javaData")
        javaData == SetByteArrayRegion(ZeroArray(length), 0, length, data)
        f3 == [f2 EXCEPT !.memRead = 1 .. length]
    IN
    IF rt.fail = "class" THEN Return(DeleteLocalRef(f3, "javaData"), -1) ELSE
    LET f4 == NewLocalRef(f3, "irManagerClass") IN
    IF rt.fail = "method"
    THEN Return(DeleteLocalRef(DeleteLocalRef(f4, "irManagerClass"), "javaData"), -1) ELSE
    LET f5 == CallMethod(f4, "writeTCP", "([BI)I", <<javaData, length>>)
        result == rt.hostRet
        f6 == DeleteLocalRef(DeleteLocalRef(f5, "irManagerClass"), "javaData")
    IN  Return(f6, result)

\* readTCP as it would be if a host result below zero were reported as the
\* read sentinel 0.
readTCPBody_negativeAsZero(buffer, maxLength, rt) ==
    LET f0 == Enter("readTCP", maxLength, rt) IN
    IF jniEnvHandler = NULL \/ irManager = NULL THEN Return(f0, 0) ELSE
    LET f1 == getCurrentThreadEnv(f0) IN
    IF rt.fail = "env" THEN Return(f1, 0) ELSE
    IF rt.fail = "alloc" THEN Return(f1, 0) ELSE
    LET f2 == NewLocalRef(f1, "javaBuffer")
        javaBuffer == ZeroArray(maxLength)
    IN
    IF rt.fail = "class" THEN Return(DeleteLocalRef(f2, "javaBuffer"), 0) ELSE
    LET f3 == NewLocalRef(f2, "irManagerClass") IN
    IF rt.fail = "method"
    THEN Return(DeleteLocalRef(DeleteLocalRef(f3, "irManagerClass"), "javaBuffer"), 0) ELSE
    LET f4 == CallMethod(f3, "readTCP", "([BI)I", <<javaBuffer, maxLength>>)
        filled == HostFill(javaBuffer, rt.hostData)
        bytesRead == rt.hostRet
        f5 == IF bytesRead > 0
              THEN [f4 EXCEPT
                      !.mem = GetByteArrayRegion(filled, 0, bytesRead, buffer),
                      !.memWritten = IF RegionOk(filled, 0, bytesRead)
                                     THEN 1 .. bytesRead ELSE {}]
              ELSE f4
        f6 == DeleteLocalRef(DeleteLocalRef(f5, "irManagerClass"), "javaBuffer")
    IN  Return([f6 EXCEPT !.filled = filled], IF bytesRead > 0 THEN bytesRead ELSE 0)

\* int readTCP(char* buffer, int maxLength)
readTCPBody(buffer, maxLength, rt) ==
    LET f0 == Enter("readTCP", maxLength, rt) IN
    IF jniEnvHandler = NULL \/ irManager = NULL THEN Return(f0, 0) ELSE
    LET f1 == getCurrentThreadEnv(f0) IN
    IF rt.fail = "env" THEN Return(f1, 0) ELSE
    IF rt.fail = "alloc" THEN Return(f1, 0) ELSE
    LET f2 == NewLocalRef(f1, "javaBuffer")
        javaBuffer == ZeroArray(maxLength)
    IN
    IF rt.fail = "class" THEN Return(DeleteLocalRef(f2, "javaBuffer"), 0) ELSE
    LET f3 == NewLocalRef(f2, "irManagerClass") IN
    IF rt.fail = "method"
    THEN Return(DeleteLocalRef(DeleteLocalRef(f3, "irManagerClass"), "javaBuffer"), 0) ELSE
    LET f4 == CallMethod(f3, "readTCP", "([BI)I", <<javaBuffer, maxLength>>)
        filled == HostFill(javaBuffer, rt.hostData)
        bytesRead == rt.hostRet
        f5 == IF bytesRead > 0
              THEN [f4 EXCEPT
                      !.mem = GetByteArrayRegion(filled, 0, bytesRead, buffer),
                      !.memWritten = IF RegionOk(filled, 0, bytesRead)
                                     THEN 1 .. bytesRead ELSE {}]
              ELSE f4
        f6 == DeleteLocalRef(DeleteLocalRef(f5, "irManagerClass"), "javaBuffer")
    IN  Return([f6 EXCEPT !.filled = filled], bytesRead)

\* bool isTCPOpen()
isTCPOpenBody(rt) ==
    LET f0 == Enter("isTCPOpen", 0, rt) IN
    IF jniEnvHandler = NULL \/ irManager = NULL THEN Return(f0, FALSE) ELSE
    LET f1 == getCurrentThreadEnv(f0) IN
    IF rt.fail = "env" THEN Return(f1, FALSE) ELSE
    IF rt.fail = "class" THEN Return(f1, FALSE) ELSE
    LET f2 == NewLocalRef(f1, "irManagerClass") IN
    IF rt.fail = "method"
    THEN Return(DeleteLocalRef(f2, "irManagerClass"), FALSE) ELSE
    LET f3 == CallMethod(f2, "isTCPOpen", "()Z", <<>>)
        result == rt.hostRet
        f4 == DeleteLocalRef(f3, "irManagerClass")
    IN  Return(f4, result # 0)

\* hasDataAvailable as it would be if only jniEnvHandler were checked.
hasDataAvailableBody_irManagerUnchecked(rt) ==
    LET f0 == Enter("hasDataAvailable", 0, rt) IN
    IF jniEnvHandler = NULL THEN Return(f0, FALSE) ELSE
    LET f1 == getCurrentThreadEnv(f0) IN
    IF rt.fail = "env" THEN Return(f1, FALSE) ELSE
    IF rt.fail = "class" THEN Return(f1, FALSE) ELSE
    LET f2 == NewLocalRef(f1, "irManagerClass") IN
    IF rt.fail = "method"
    THEN Return(DeleteLocalRef(f2, "irManagerClass"), FALSE) ELSE
    LET f3 == CallMethod(f2, "hasDataAvailable", "()Z", <<>>)
        result == rt.hostRet
        f4 == DeleteLocalRef(f3, "irManagerClass")
    IN  Return(f4, result # 0)

\* bool hasDataAvailable()
hasDataAvailableBody(rt) ==
    LET f0 == Enter("hasDataAvailable", 0, rt) IN
    IF jniEnvHandler = NULL \/ irManager = NULL THEN Return(f0, FALSE) ELSE
    LET f1 == getCurrentThreadEnv(f0) IN
    IF rt.fail = "env" THEN Return(f1, FALSE) ELSE
    IF rt.fail = "class" THEN Return(f1, FALSE) ELSE
    LET f2 == NewLocalRef(f1, "irManagerClass") IN
    IF rt.fail = "method"
    THEN Return(DeleteLocalRef(f2, "irManagerClass"), FALSE) ELSE
    LET f3 == CallMethod(f2, "hasDataAvailable", "()Z", <<>>)
        result == rt.hostRet
        f4 == DeleteLocalRef(f3, "irManagerClass")
    IN  Return(f4, result # 0)

----------------------------------------------------------------------------
(* The state machine.                                                      *)

\* No call has been made yet.
NoRuntime == [fail |-> "none", hostRet |-> 0, hostData |-> <<>>]

\* The constructor stores both handles as given, null or not.
Init ==
    /\ jniEnvHandler \in {NULL, "JniEnvHandler"}
    /\ irManager \in {NULL, "IRManager"}
    /\ memory \in SeqsOfLen(Bytes, MemLen)
    /\ localRefs = 0
    /\ serialOpened = FALSE
    /\ call = Enter("none", 0, NoRuntime)

\* Local references a finished call created and did not delete.
Leaked(f) ==
    {i \in DOMAIN f.newRefs : \A j \in DOMAIN f.delRefs : f.delRefs[j] # f.newRefs[i]}

\* History of the host's answers: whether the serial link is open, that is,
\* the host answered true to openSerial and closeSerial has not reached it since.
OpenedAfter(f) ==
    IF f.invoked = <<>> THEN serialOpened
    ELSE IF f.op = "openSerial" THEN f.ret
    ELSE IF f.op = "closeSerial" THEN FALSE
    ELSE serialOpened

\* A call has run to its return with effects f.
Finish(f) ==
    /\ localRefs < MaxLiveRefs
    /\ call' = f
    /\ memory' = call'.mem
    /\ localRefs' = localRefs + Cardinality(Leaked(call'))
    /\ serialOpened' = OpenedAfter(call')
    /\ UNCHANGED <<jniEnvHandler, irManager>>

openSerial ==
    \E rt \in NoArgRuntimes(JBooleans) :
        Finish(openSerialBody(rt))

closeSerial ==
    \E rt \in NoArgRuntimes({0}) :
        Finish(closeSerialBody(rt))

writeSerial ==
    \E length \in Lengths : \E rt \in WriteRuntimes :
        Finish(writeSerialBody(memory, length, rt))

readSerial ==
    \E maxLength \in Lengths : \E rt \in ReadRuntimes(maxLength) :
        Finish(readSerialBody(memory, maxLength, rt))

isSerialOpen ==
    \E rt \in NoArgRuntimes(JBooleans) :
        Finish(isSerialOpenBody(rt))

openTCP ==
    \E rt \in NoArgRuntimes(JBooleans) :
        Finish(openTCPBody(rt))

closeTCP ==
    \E rt \in NoArgRuntimes({0}) :
        Finish(closeTCPBody(rt))

writeTCP ==
    \E length \in Lengths : \E rt \in WriteRuntimes :
        Finish(writeTCPBody(memory, length, rt))

readTCP ==
    \E maxLength \in Lengths : \E rt \in ReadRuntimes(maxLength) :
        Finish(readTCPBody(memory, maxLength, rt))

isTCPOpen ==
    \E rt \in NoArgRuntimes(JBooleans) :
        Finish(isTCPOpenBody(rt))

hasDataAvailable ==
    \E rt \in NoArgRuntimes(JBooleans) :
        Finish(hasDataAvailableBody(rt))

Next ==
    \/ openSerial
    \/ closeSerial
    \/ writeSerial
    \/ readSerial
    \/ isSerialOpen
    \/ openTCP
    \/ closeTCP
    \/ writeTCP
    \/ readTCP
    \/ isTCPOpen
    \/ hasDataAvailable

Spec == Init /\ [][Next]_vars

----------------------------------------------------------------------------
(* Properties of the finished call.                                        *)

\* A call has been made.
Called == call.op # "none"

\* Both handles are non-null.
Valid == jniEnvHandler # NULL /\ irManager # NULL

\* Every step before the host invocation succeeded in the last call.
Resolved == Valid /\ call.rt.fail = "none"

\* Occurrences of x in seq.
Count(seq, x) == Cardinality({i \in DOMAIN seq : seq[i] = x})

\* The first n elements of seq.
Prefix(seq, n) == [i \in 1 .. n |-> seq[i]]

\* C1: when a step before the host invocation fails (a null handle, no JNI
\* environment, no byte array, no class, no method id), the host method is
\* not invoked and the call returns its sentinel: false for the boolean
\* operations, -1 for the writes, 0 for the reads; the closes just return.
C1_FailureSentinel ==
    (Called /\ ~Resolved) =>
        /\ call.invoked = <<>>
        /\ call.op \in BoolOps => call.ret = FALSE
        /\ call.op \in WriteOps => call.ret = -1
        /\ call.op \in ReadOps => call.ret = 0

C1_Witness ==
    /\ Valid
    /\ call.op = "writeSerial"
    /\ call.rt.fail = "method"
    /\ call.invoked = <<>>
    /\ call.ret = -1

\* C2: on every exit path each local reference the call created (the class,
\* and the byte array of a write or read) has been deleted exactly once, no
\* other reference is deleted, and no local reference of the handler is
\* live between calls.
C2_LocalRefsReleased ==
    /\ localRefs = 0
    /\ Called =>
        /\ \A r \in {"irManagerClass", "javaData", "javaBuffer"} :
              /\ Count(call.newRefs, r) <= 1
              /\ Count(call.delRefs, r) = Count(call.newRefs, r)
        /\ Resolved =>
              /\ Count(call.newRefs, "irManagerClass") = 1
              /\ call.op \in WriteOps => Count(call.newRefs, "javaData") = 1
              /\ call.op \in ReadOps => Count(call.newRefs, "javaBuffer") = 1

C2_Witness ==
    /\ call.op = "readTCP"
    /\ Valid
    /\ call.rt.fail = "method"
    /\ call.newRefs = <<"javaBuffer", "irManagerClass">>
    /\ call.delRefs = <<"irManagerClass", "javaBuffer">>
    /\ localRefs = 0

\* C3: with a null jniEnvHandler or a null irManager every call returns its
\* sentinel without obtaining a JNI environment, creating a local reference
\* or invoking a host method, and a read leaves the caller's buffer as it was.
C3_NullHandles ==
    (Called /\ ~Valid) =>
        /\ call.envCalls = 0
        /\ call.newRefs = <<>>
        /\ call.invoked = <<>>
        /\ call.op \in BoolOps => call.ret = FALSE
        /\ call.op \in WriteOps => call.ret = -1
        /\ call.op \in ReadOps =>
              /\ call.ret = 0
              /\ call.memWritten = {}
              /\ memory = call.memBefore

C3_Witness ==
    /\ irManager = NULL
    /\ jniEnvHandler # NULL
    /\ call.op = "readSerial"
    /\ call.length > 0
    /\ call.ret = 0
    /\ call.envCalls = 0

\* C4: when every resolution step succeeds, a write invokes the host method
\* of its own name once with a fresh array of exactly `length` elements
\* equal to data[0..length) and with `length`, and returns what the host
\* method returned.
C4_WriteCopyIn ==
    (Called /\ call.op \in WriteOps /\ Resolved) =>
        /\ call.invoked =
              << [ method |-> call.op, sig |-> "([BI)I",
                   args |-> <<Prefix(call.memBefore, call.length), call.length>> ] >>
        /\ Count(call.newRefs, "javaData") = 1
        /\ call.ret = call.rt.hostRet

C4_Witness ==
    /\ call.op = "writeTCP"
    /\ Resolved
    /\ call.length = MaxLen
    /\ Len(call.invoked) = 1
    /\ call.invoked[1].args[1][MaxLen] = 1
    /\ call.invoked[1].args[1][1] = 0
    /\ call.ret = call.length

\* C5: whenever a read returns a positive value n, the first n bytes of the
\* caller's buffer are the first n bytes the host method placed in the
\* transfer array, for every n the host method can return.
C5_ReadCopyOut ==
    (Called /\ call.op \in ReadOps /\ call.ret > 0) =>
        \A i \in 1 .. call.ret :
            /\ i \in DOMAIN call.filled
            /\ memory[i] = call.filled[i]

\* C6: the handles never change after construction, and no operation is
\* gated on an earlier one: whatever the history of opens and closes, a
\* write, a read or hasDataAvailable whose resolution succeeds reaches the
\* host method, and its result is the host's.
C6_NoProtocolState ==
    [][ /\ jniEnvHandler' = jniEnvHandler
        /\ irManager' = irManager
        /\ ( /\ jniEnvHandler # NULL
             /\ irManager # NULL
             /\ call'.op \in WriteOps \cup ReadOps \cup {"hasDataAvailable"}
             /\ call'.rt.fail = "none" ) =>
               /\ Len(call'.invoked) = 1
               /\ call'.invoked[1].method = call'.op
               /\ call'.op \in WriteOps \cup ReadOps => call'.ret = call'.rt.hostRet
               /\ call'.op = "hasDataAvailable" => call'.ret = (call'.rt.hostRet # 0)
      ]_vars

C6_Witness ==
    /\ ~serialOpened
    /\ call.op = "writeSerial"
    /\ call.length > 0
    /\ Len(call.invoked) = 1
    /\ call.ret = call.length

\* The JNI signature of the host method an operation forwards to.
Sig(op) ==
    IF op \in BoolOps THEN "()Z"
    ELSE IF op \in VoidOps THEN "()V"
    ELSE "([BI)I"

\* C7: a call invokes a host method at most once, exactly once when every
\* resolution step succeeds, and only the method of its own name and
\* signature; a boolean operation returns true exactly when that one
\* invocation returned true.
C7_SingleForward ==
    Called =>
        /\ Len(call.invoked) <= 1
        /\ Resolved <=> Len(call.invoked) = 1
        /\ \A i \in DOMAIN call.invoked :
              /\ call.invoked[i].method = call.op
              /\ call.invoked[i].sig = Sig(call.op)
        /\ call.op \in BoolOps =>
              (call.ret <=> (Len(call.invoked) = 1 /\ call.rt.hostRet = 1))

C7_Witness ==
    /\ call.op = "isTCPOpen"
    /\ call.invoked = << [method |-> "isTCPOpen", sig |-> "()Z", args |-> <<>>] >>
    /\ call.rt.hostRet = 1
    /\ call.ret = TRUE

\* C8: when the host read method returns n <= 0, the read leaves every byte
\* of the caller's buffer unchanged and returns n itself, negative or zero.
C8_ReadNothing ==
    (Called /\ call.op \in ReadOps /\ Len(call.invoked) = 1 /\ call.rt.hostRet <= 0) =>
        /\ memory = call.memBefore
        /\ call.memWritten = {}
        /\ call.ret = call.rt.hostRet

C8_Witness ==
    /\ call.op = "readSerial"
    /\ Len(call.invoked) = 1
    /\ call.length = MaxLen
    /\ call.rt.hostRet = -1
    /\ call.ret = -1
    /\ \A i \in 1 .. call.length : call.filled[i] # memory[i]

\* C9: a zero-length buffer is forwarded like any other: with successful
\* resolution the call allocates an empty array, invokes the host method
\* once with it and 0, returns the host's result and releases both local
\* references; when the host returns 0 no byte of the caller's memory is
\* read or written.
C9_ZeroLength ==
    (Called /\ call.op \in WriteOps \cup ReadOps /\ Resolved /\ call.length = 0) =>
        /\ call.invoked =
              << [method |-> call.op, sig |-> "([BI)I", args |-> << <<>>, 0 >>] >>
        /\ call.ret = call.rt.hostRet
        /\ Len(call.newRefs) = 2
        /\ \A i \in DOMAIN call.newRefs : Count(call.delRefs, call.newRefs[i]) = 1
        /\ call.rt.hostRet = 0 =>
              /\ call.memRead = {}
              /\ call.memWritten = {}
              /\ memory = call.memBefore

C9_Witness ==
    /\ call.op = "readSerial"
    /\ Resolved
    /\ call.length = 0
    /\ Len(call.invoked) = 1
    /\ call.invoked[1].args = << <<>>, 0 >>
    /\ call.ret = 0

\* C10: whatever the host read method returns, also more than maxLength, a
\* read writes no cell of the caller's memory outside buffer[0..maxLength).
C10_ReadWithinBuffer ==
    (Called /\ call.op \in ReadOps) =>
        /\ call.memWritten \subseteq 1 .. call.length
        /\ \A i \in (call.length + 1) .. MemLen : memory[i] = call.memBefore[i]

C10_Witness ==
    /\ call.op = "readTCP"
    /\ Len(call.invoked) = 1
    /\ call.length > 0
    /\ call.rt.hostRet > call.length
    /\ call.ret = call.rt.hostRet
    /\ \E i \in 1 .. call.length : call.filled[i] # memory[i]

====
